---- MODULE Spec2Model ----
(***************************************************************************)
(* Model of src/unpack.py: the batch driver process_ab_files, the          *)
(* single-file processor process_ab_file with its retry_on_error wrapper,  *)
(* the file validator, the asset classifier, name sanitisation and output  *)
(* path resolution.  The external decoder (UnityPy) and the file system    *)
(* are the environment: what they answer is drawn with \E in the action    *)
(* that asks.                                                              *)
(***************************************************************************)
EXTENDS Integers, Sequences, FiniteSets, TLC

\* ------------------------------------------------------------------ bounds
\* discovered .ab files per run
MaxFiles == 2
\* objects in one bundle (len(env.objects)) when one file is followed
MaxObjects == 3
\* objects in one bundle when a whole batch run is followed
MaxBatchObjects == 1
\* largest file size in bytes the validator is tried on
MaxSize == 4

\* ------------------------------------------------------- program constants
\* @retry_on_error(max_attempts=3, delay=1)
max_attempts == 3
\* BATCH_SIZE = 5
BATCH_SIZE == 5

\* ------------------------------------------------------------------- paths
\* A path is a sequence of components; a component is a name split as
\* pathlib splits it into stem and suffix.
Dir(s) == [stem |-> s, suffix |-> ""]
Ab(s) == [stem |-> s, suffix |-> ".ab"]

\* args.input default 'avg', args.output default 'output'
root_path == <<Dir("avg")>>
output_base == <<Dir("output")>>

\* Path.parent: the path without its last component; the parent of the
\* empty relative path "." is itself.
parent(p) == IF Len(p) = 0 THEN p ELSE SubSeq(p, 1, Len(p) - 1)

\* Path.relative_to(base), base a prefix of p
relative_to(p, base) == SubSeq(p, Len(base) + 1, Len(p))

\* Path.stem: the last component without its suffix
stem(p) == p[Len(p)].stem

\* relative_path = file_path.relative_to(file_path.parent.parent)
relative_path(file_path) == relative_to(file_path, parent(parent(file_path)))

\* asset_output_dir = output_base / relative_path.parent / relative_path.stem
asset_output_dir_of(file_path) ==
    output_base \o parent(relative_path(file_path))
                \o <<Dir(stem(relative_path(file_path)))>>

\* The .ab files of the input tree, relative to the root, in rglob order.
Tree ==
    << <<Ab("f")>>,
       <<Dir("x"), Ab("f")>>,
       <<Dir("a"), Dir("x"), Ab("f")>> >>

\* ab_files = list(root_path.rglob("*.ab")): the files of a selection S of
\* the tree, each prefixed by the root, in tree order.
RECURSIVE rglob(_, _)
rglob(S, k) ==
    IF k > Len(Tree) THEN <<>>
    ELSE (IF k \in S THEN <<root_path \o Tree[k]>> ELSE <<>>) \o rglob(S, k + 1)

\* -------------------------------------------------------------- characters
Digit == <<"0", "1", "2", "3", "4", "5", "6", "7", "8", "9">>
DigitSet == {Digit[k] : k \in 1..10}
Letters == {"a", "b", "d", "e", "m", "n", "s", "t", "u"}

\* str.isalnum() on one character
isalnum(c) == c \in Letters \cup DigitSet

\* str(n) for an integer: decimal digits, a leading "-" when negative
RECURSIVE Digits(_)
Digits(n) == IF n < 10 THEN <<Digit[n + 1]>>
             ELSE Digits(n \div 10) \o <<Digit[(n % 10) + 1]>>
Str(n) == IF n < 0 THEN <<"-">> \o Digits(-n) ELSE Digits(n)

\* str.rstrip(): trailing whitespace removed
RECURSIVE rstrip(_)
rstrip(s) == IF Len(s) > 0 /\ s[Len(s)] = " "
             THEN rstrip(SubSeq(s, 1, Len(s) - 1)) ELSE s

Keep(c) == isalnum(c) \/ c \in {" ", "-", "_"}

\* "".join(c for c in data.name if c.isalnum() or c in (' ','-','_')).rstrip()
sanitize(name) == rstrip(SelectSeq(name, Keep))

Png == <<".", "p", "n", "g">>
Unnamed == <<"u", "n", "n", "a", "m", "e", "d", "_", "a", "s", "s", "e", "t", "_">>


\* get_asset_name(data, obj).  data.name is absent (no attribute), raises
\* when read, or holds a string; an empty string is falsy.
get_asset_name(data, path_id) ==
    IF data.name_kind = "value" /\ Len(data.name) > 0
    THEN sanitize(data.name)
    ELSE Unnamed \o Str(path_id)

\* ------------------------------------------------------------ file validator
\* A candidate file as check_file_validity sees it: whether it exists, which
\* of stat/open/read fails with an OSError, and its bytes.
UnitHeader == <<85, 110, 105, 116>>
ZeroHeader == <<0, 0, 0, 0>>

\* bytes.startswith(prefix)
startswith(b, prefix) ==
    Len(b) >= Len(prefix) /\ SubSeq(b, 1, Len(prefix)) = prefix

\* f.read(4)
read4(content) == SubSeq(content, 1, IF Len(content) < 4 THEN Len(content) ELSE 4)

Return(v) == [kind |-> "return", value |-> v]
Raise == [kind |-> "raise", value |-> FALSE]

\* check_try with an unknown header rejected instead of warned about
check_try_strict_header(f) ==
    IF ~f.exists THEN Return(FALSE)
    ELSE IF f.fails = "stat" THEN Raise
    ELSE IF Len(f.content) = 0 THEN Return(FALSE)
    ELSE IF f.fails = "open" THEN Raise
    ELSE IF f.fails = "read" THEN Raise
    ELSE IF Len(read4(f.content)) < 4 THEN Return(FALSE)
    ELSE IF ~(startswith(read4(f.content), UnitHeader)
              \/ startswith(read4(f.content), ZeroHeader)) THEN Return(FALSE)
    ELSE Return(TRUE)

\* the try block of check_file_validity
check_try(f) ==
    IF ~f.exists THEN Return(FALSE)
    ELSE IF f.fails = "stat" THEN Raise
    ELSE IF Len(f.content) = 0 THEN Return(FALSE)
    ELSE IF f.fails = "open" THEN Raise
    ELSE IF f.fails = "read" THEN Raise
    ELSE IF Len(read4(f.content)) < 4 THEN Return(FALSE)
    ELSE Return(TRUE)

\* whether the "may not be a valid Unity resource" warning is logged
check_warns(f) ==
    /\ check_try(f) = Return(TRUE)
    /\ ~(startswith(read4(f.content), UnitHeader)
          \/ startswith(read4(f.content), ZeroHeader))

\* check_file_validity: except Exception -> log, return False
check_file_validity(f) ==
    IF check_try(f).kind = "raise" THEN Return(FALSE) ELSE check_try(f)

\* --------------------------------------------------------- asset classifier
ImageTypes == {"Texture2D", "Sprite"}

\* safe_extract_asset(obj): obj exposes .type, or .object_reader.type, or
\* neither; reading the type name may raise.
safe_extract_asset(obj) ==
    IF obj.shape = "type" \/ obj.shape = "object_reader"
    THEN (IF obj.type_raises THEN FALSE ELSE obj.type_name \in ImageTypes)
    ELSE FALSE

\* ------------------------------------------------------ output path resolver
\* f"{safe_name}.png" for counter 0 (the unsuffixed first probe) and
\* f"{safe_name}_{counter}.png" for counter >= 1
file_name(safe_name, counter) ==
    IF counter = 0 THEN safe_name \o Png
    ELSE safe_name \o <<"_">> \o Str(counter) \o Png

\* while output_path.exists(): ...; counter += 1
\* names: the file names present in asset_output_dir; the result is the
\* suffix number of the first free name (0: unsuffixed).
RECURSIVE probe(_, _, _)
probe(names, safe_name, counter) ==
    IF file_name(safe_name, counter) \in names
    THEN probe(names, safe_name, counter + 1)
    ELSE counter

\* resolve with "if output_path.exists()" in place of the while loop
resolve_probe_once(names, safe_name) ==
    IF file_name(safe_name, 0) \in names THEN 1 ELSE 0

resolve(names, safe_name) == probe(names, safe_name, 0)

\* ------------------------------------------------------------ retry wrapper
\* One pass of the for loop of retry_on_error's wrapper, given what the call
\* func(*args) did (Return(v) or Raise) on attempt number `attempt`:
\*   return  the wrapper returns the value
\*   raise   the last attempt re-raises
\*   retry   warning, time.sleep(delay), next attempt
\* wrapper_step with the last attempt tested as attempt == max_attempts
wrapper_step_off_by_one(attempt, outcome) ==
    IF outcome.kind = "return" THEN [kind |-> "return", value |-> outcome.value]
    ELSE IF attempt = max_attempts THEN [kind |-> "raise", value |-> FALSE]
    ELSE [kind |-> "retry", value |-> FALSE]

wrapper_step(attempt, outcome) ==
    IF outcome.kind = "return" THEN [kind |-> "return", value |-> outcome.value]
    ELSE IF attempt = max_attempts - 1 THEN [kind |-> "raise", value |-> FALSE]
    ELSE [kind |-> "retry", value |-> FALSE]


\* ------------------------------------------------------- environment inputs
\* file contents tried by the validator: the first n bytes of a file that
\* starts with b'Unit', with four zero bytes, or with another header
OtherHeader == <<80, 75, 3, 4>>
Headers == {UnitHeader, ZeroHeader, OtherHeader}
content_of(h, n) == [k \in 1..n |-> IF k <= 4 THEN h[k] ELSE 7]
Contents == {content_of(h, n) : h \in Headers, n \in 0..MaxSize}

MissingFile == [exists |-> FALSE, fails |-> "none", content |-> <<>>]
FileStates ==
    {MissingFile} \cup
    [exists : {TRUE}, fails : {"none", "stat", "open", "read"}, content : Contents]

\* decoder objects as safe_extract_asset sees them
ObjShapes ==
    [shape : {"type", "object_reader", "none"},
     type_name : {"Texture2D", "Sprite", "Mesh"},
     type_raises : BOOLEAN]

\* data.name values: plain, with a suffix-like tail, with a character that
\* is stripped and a trailing space, only stripped characters, empty
RawNames ==
    { <<"a">>, <<"a", "_", "1">>, <<"a", "/", " ">>, <<"/", ".">>, <<>> }

\* decoded data: name absent / raising / a string, and whether it has .image
Datas ==
    [name_kind : {"absent", "raises"}, name : {<<>>}, has_image : BOOLEAN]
    \cup [name_kind : {"value"}, name : RawNames, has_image : BOOLEAN]

\* obj.path_id values (signed 64-bit in the decoder)
PathIds == {-10}

\* every name get_asset_name can return on these inputs
SafeNames == {get_asset_name(d, p) : d \in Datas, p \in PathIds}

\* what check_file_validity(file_path) can answer
Validities == {check_file_validity(f).value : f \in FileStates}

\* what safe_extract_asset(obj) can answer
Classifications == {safe_extract_asset(obj) : obj \in ObjShapes}

\* what a read object gives the loop: safe_name = get_asset_name(data, obj)
\* and hasattr(data, 'image')
NamedDatas ==
    {[safe_name |-> get_asset_name(d, p), has_image |-> d.has_image] :
        d \in Datas, p \in PathIds}

\* files a previous run of the tool may have left in an output directory
Leftovers == { {}, {<<"a">> \o Png}, {<<"a", "_", "1">> \o Png} }

\* ------------------------------------------------------------------- state
VARIABLES
    pc,               \* where the program is
    root_exists,      \* whether root_path exists
    tree,             \* which files of Tree the input tree holds
    max_objs,         \* environment: the most objects a bundle holds
    ab_files,         \* list(root_path.rglob("*.ab"))
    total_files,
    i,                \* start of the current batch (0-based)
    index,            \* enumerate(batch, 1) position of the current file
    successful_files,
    failed_files,
    exit_code,        \* -1 while running, else the process's exit code
    raised,           \* the exception process_ab_files ended with, or "none"
    summary,          \* whether the final statistics were logged
    fs,               \* files under output_base: [dir, name]
    dirs,             \* directories created under output_base
    attempt,          \* wrapper: for attempt in range(max_attempts)
    flaky,            \* environment: the decoder raises on the current
                      \* file's first `flaky` load calls
    asset_output_dir,
    n_objects,        \* len(env.objects)
    done,             \* position of the loop over env.objects
    extracted,
    body,             \* what the body of process_ab_file did: Return(v)
    caught,           \* whether the inner handler caught a decoder exception
    dir0,             \* names in asset_output_dir when the loop started
    written,          \* [base, cnt] of the saves that succeeded in this call
    nres,             \* per safe_name: paths resolved for it in this call
    visited,          \* objects whose try block was entered in this call
    err_seen,         \* whether an object of this call raised
    last,             \* what the last iteration of the loop did
    outcome,          \* the files completed, and how the last was counted
    assigned,         \* per file that got that far: [file, dir]
    script,           \* RetrySpec: what func does on each call
    invocations,      \* RetrySpec: calls of func made
    delays,           \* RetrySpec: time.sleep(delay) calls made
    wres,             \* RetrySpec: how the wrapper ended
    chk               \* ValidatorSpec: input and result of the check

driver_vars == <<root_exists, tree, max_objs, ab_files, total_files, i, index,
                 successful_files, failed_files, exit_code, raised, summary>>
run_vars == <<asset_output_dir, n_objects, done, extracted, body, caught,
              dir0, written, nres, visited, err_seen, last>>
aux_vars == <<script, invocations, delays, wres, chk>>
vars == <<pc, driver_vars, fs, dirs, attempt, flaky, run_vars, outcome,
          assigned, aux_vars>>

NoBody == [kind |-> "none", value |-> FALSE]
NoChk == [input |-> MissingFile, result |-> NoBody, warned |-> FALSE]

\* last: kind is "none", "skip" (not image-typed), "read_error" or
\* "resolved" (a path was resolved for safe_name `name`: suffix number cnt,
\* after k earlier resolutions for the same name in this call).
NoLast == [kind |-> "none", name |-> <<>>, cnt |-> 0, k |-> 0, clean |-> FALSE,
           free0 |-> FALSE, has_image |-> FALSE, err |-> FALSE, saved |-> FALSE]

\* outcome: n files have completed; the last of them, whose decoder raised
\* on its first `flaky` load calls (caught: a load call was made and raised),
\* added ds to successful_files and df to failed_files
NoOutcome == [n |-> 0, flaky |-> 0, caught |-> FALSE, ds |-> 0, df |-> 0]

\* the per-call state of process_ab_file before its body has run
RunReset ==
    /\ asset_output_dir' = <<>>
    /\ n_objects' = 0
    /\ done' = 0
    /\ extracted' = FALSE
    /\ body' = NoBody
    /\ caught' = FALSE
    /\ dir0' = {}
    /\ written' = {}
    /\ nres' = [b \in SafeNames |-> 0]
    /\ visited' = 0
    /\ err_seen' = FALSE
    /\ last' = NoLast

AuxIdle ==
    /\ script = <<>>
    /\ invocations = 0
    /\ delays = 0
    /\ wres = NoBody
    /\ chk = NoChk

RunIdle ==
    /\ attempt = 0
    /\ flaky = 0
    /\ asset_output_dir = <<>>
    /\ n_objects = 0
    /\ done = 0
    /\ extracted = FALSE
    /\ body = NoBody
    /\ caught = FALSE
    /\ dir0 = {}
    /\ written = {}
    /\ nres = [b \in SafeNames |-> 0]
    /\ visited = 0
    /\ err_seen = FALSE
    /\ last = NoLast
    /\ outcome = NoOutcome
    /\ assigned = {}

DriverIdle ==
    /\ ab_files = <<>>
    /\ total_files = 0
    /\ i = 0
    /\ index = 0
    /\ successful_files = 0
    /\ failed_files = 0
    /\ exit_code = -1
    /\ raised = "none"
    /\ summary = FALSE
    /\ dirs = {}

\* A run of the tool over a tree of up to MaxFiles bundles into a fresh
\* output directory.
Init ==
    /\ pc = "start"
    /\ root_exists \in BOOLEAN
    /\ tree \in {S \in SUBSET (1..Len(Tree)) : Cardinality(S) <= MaxFiles}
    /\ max_objs = MaxBatchObjects
    /\ fs = {}
    /\ DriverIdle
    /\ RunIdle
    /\ AuxIdle

\* A run of the tool over a tree of one bundle of up to MaxObjects objects,
\* into an output directory a previous run may have written to.
InitFile ==
    /\ pc = "start"
    /\ root_exists \in BOOLEAN
    /\ tree = {2}
    /\ max_objs = MaxObjects
    /\ \E left \in Leftovers :
         fs = {[dir |-> asset_output_dir_of(root_path \o Tree[k]), name |-> n] :
                 k \in tree, n \in left}
    /\ DriverIdle
    /\ RunIdle
    /\ AuxIdle

\* ------------------------------------------------------------ batch driver
\* the file the driver is at: batch[index - 1] = ab_files[i + index - 1]
current_file == ab_files[i + index]

\* len(batch), batch = ab_files[i:i + BATCH_SIZE]
batch_len == IF total_files - i < BATCH_SIZE THEN total_files - i ELSE BATCH_SIZE

names_in(files, d) == {e.name : e \in {x \in files : x.dir = d}}

\* if not root_path.exists(): raise AssetExtractionError; the outer handler
\* logs and re-raises; main logs and calls sys.exit(1)
RootMissing ==
    /\ pc = "start"
    /\ ~root_exists
    /\ raised' = "AssetExtractionError"
    /\ exit_code' = 1
    /\ pc' = "exit"
    /\ UNCHANGED <<root_exists, tree, max_objs, ab_files, total_files, i, index,
                   successful_files, failed_files, summary, fs, dirs, attempt,
                   flaky, run_vars, outcome, assigned, aux_vars>>

\* ab_files = list(root_path.rglob("*.ab")); no file: warning and return
Discover ==
    /\ pc = "start"
    /\ root_exists
    /\ ab_files' = rglob(tree, 1)
    /\ total_files' = Len(ab_files')
    /\ IF total_files' = 0
       THEN /\ pc' = "exit"
            /\ exit_code' = 0
       ELSE /\ pc' = "batch"
            /\ exit_code' = exit_code
    /\ UNCHANGED <<root_exists, tree, max_objs, i, index, successful_files,
                   failed_files, raised, summary, fs, dirs, attempt, flaky,
                   run_vars, outcome, assigned, aux_vars>>

\* for i in range(0, total_files, BATCH_SIZE): the batch header
BeginBatch ==
    /\ pc = "batch"
    /\ i < total_files
    /\ index' = 1
    /\ pc' = "file"
    /\ UNCHANGED <<root_exists, tree, max_objs, ab_files, total_files, i,
                   successful_files, failed_files, exit_code, raised, summary,
                   fs, dirs, attempt, flaky, run_vars, outcome, assigned,
                   aux_vars>>

\* the progress line, then process_ab_file(file_path, output_base): the
\* wrapper starts its loop at attempt 0.  The environment fixes on how many
\* of the first load calls for this file the decoder raises.
StartFile ==
    /\ pc = "file"
    /\ index <= batch_len
    /\ attempt' = 0
    /\ flaky' \in 0..max_attempts
    /\ pc' = "call"
    /\ UNCHANGED <<driver_vars, fs, dirs, run_vars, outcome, assigned,
                   aux_vars>>

\* after the last file of the batch: gc, the batch statistics, next batch
EndBatch ==
    /\ pc = "file"
    /\ index > batch_len
    /\ i' = i + BATCH_SIZE
    /\ index' = 0
    /\ pc' = "batch"
    /\ UNCHANGED <<root_exists, tree, max_objs, ab_files, total_files,
                   successful_files, failed_files, exit_code, raised, summary,
                   fs, dirs, attempt, flaky, run_vars, outcome, assigned,
                   aux_vars>>

\* the final statistics; process_ab_files returns, main ends with code 0
Summary ==
    /\ pc = "batch"
    /\ i >= total_files
    /\ summary' = TRUE
    /\ exit_code' = 0
    /\ pc' = "exit"
    /\ UNCHANGED <<root_exists, tree, max_objs, ab_files, total_files, i, index,
                   successful_files, failed_files, raised, fs, dirs, attempt,
                   flaky, run_vars, outcome, assigned, aux_vars>>

\* KeyboardInterrupt is no Exception: no handler of the wrapper, of
\* process_ab_file or of process_ab_files catches it; the frames of a file
\* being processed are unwound, and main exits with 1
Interrupt ==
    /\ pc \in {"start", "batch", "file", "call", "mkdir", "load", "loop", "ret"}
    /\ raised' = "KeyboardInterrupt"
    /\ exit_code' = 1
    /\ pc' = "exit"
    /\ RunReset
    /\ attempt' = 0
    /\ flaky' = 0
    /\ UNCHANGED <<root_exists, tree, max_objs, ab_files, total_files, i, index,
                   successful_files, failed_files, summary, fs, dirs, outcome,
                   assigned, aux_vars>>

\* ----------------------------------------------------- single-file processor
\* if not check_file_validity(file_path): return False
Validate ==
    /\ pc = "call"
    /\ \E valid \in Validities :
         IF valid
         THEN /\ pc' = "mkdir"
              /\ body' = body
         ELSE /\ pc' = "ret"
              /\ body' = Return(FALSE)
    /\ UNCHANGED <<driver_vars, fs, dirs, attempt, flaky, asset_output_dir,
                   n_objects, done, extracted, caught, dir0, written, nres,
                   visited, err_seen, last, outcome, assigned, aux_vars>>

\* asset_output_dir = ...; if not create_output_directory(...): return False
\* (mkdir(parents=True, exist_ok=True) may fail with an OSError)
MakeDir ==
    /\ pc = "mkdir"
    /\ asset_output_dir' = asset_output_dir_of(current_file)
    /\ assigned' = assigned \cup
                     {[file |-> current_file, dir |-> asset_output_dir']}
    /\ \E ok \in BOOLEAN :
         IF ok
         THEN /\ dirs' = dirs \cup {asset_output_dir'}
              /\ pc' = "load"
              /\ body' = body
         ELSE /\ dirs' = dirs
              /\ pc' = "ret"
              /\ body' = Return(FALSE)
    /\ UNCHANGED <<driver_vars, fs, attempt, flaky, n_objects, done,
                   extracted, caught, dir0, written, nres, visited, err_seen,
                   last, outcome, aux_vars>>

\* env = UnityPy.load(str(file_path)); extracted = False; env.objects.
\* A decoder exception is caught by the inner handler: log, return False.
Load ==
    /\ pc = "load"
    /\ IF attempt < flaky
       THEN /\ pc' = "ret"
            /\ body' = Return(FALSE)
            /\ caught' = TRUE
            /\ UNCHANGED <<n_objects, dir0>>
       ELSE /\ n_objects' \in 0..max_objs
            /\ dir0' = names_in(fs, asset_output_dir)
            /\ pc' = "loop"
            /\ body' = body
            /\ caught' = caught
    /\ extracted' = FALSE
    /\ done' = 0
    /\ UNCHANGED <<driver_vars, fs, dirs, attempt, flaky, asset_output_dir,
                   written, nres, visited, err_seen, last, outcome, assigned,
                   aux_vars>>

\* after_object_error with break in place of continue
break_on_object_error(d, n) == n

\* except Exception as e: log; continue -- the loop goes on with the next
\* object
after_object_error(d, n) == d + 1

\* whether none of the names safe_name.png, safe_name_1.png, ... is in names
family_free(names, safe_name) ==
    \A k \in 0..Cardinality(names) : file_name(safe_name, k) \notin names

\* whether, of the first k+1 names of safe_name's family, those present in
\* names were all saved for safe_name in this call, and each of the k earlier
\* resolutions for safe_name was followed by its save
family_clean(names, wr, safe_name, k) ==
    /\ \A c \in 0..k : file_name(safe_name, c) \in names
                          => [base |-> safe_name, cnt |-> c] \in wr
    /\ Cardinality({e \in wr : e.base = safe_name}) = k

\* One iteration of the loop over env.objects, the whole try block:
\* classify, read, name, resolve the output path, save.
ProcessObject ==
    /\ pc = "loop"
    /\ done < n_objects
    /\ visited' = visited + 1
    /\ \E is_image \in Classifications :
         IF ~is_image
         THEN \* continue
              /\ last' = [NoLast EXCEPT !.kind = "skip"]
              /\ done' = done + 1
              /\ UNCHANGED <<fs, extracted, written, nres, err_seen>>
         ELSE \E read_ok \in BOOLEAN :
           IF ~read_ok
           THEN \* obj.read() raises
                /\ last' = [NoLast EXCEPT !.kind = "read_error", !.err = TRUE]
                /\ err_seen' = TRUE
                /\ done' = after_object_error(done, n_objects)
                /\ UNCHANGED <<fs, extracted, written, nres>>
           ELSE \E data \in NamedDatas :
             LET safe_name == data.safe_name
                 names == names_in(fs, asset_output_dir)
                 cnt == resolve(names, safe_name)
                 out == [dir |-> asset_output_dir,
                         name |-> file_name(safe_name, cnt)]
                 res == [kind |-> "resolved", name |-> safe_name, cnt |-> cnt,
                         k |-> nres[safe_name],
                         clean |-> family_clean(names, written, safe_name,
                                                nres[safe_name]),
                         free0 |-> family_free(dir0, safe_name),
                         has_image |-> data.has_image,
                         err |-> FALSE, saved |-> FALSE]
             IN /\ nres' = [nres EXCEPT ![safe_name] = @ + 1]
                /\ IF ~data.has_image
                   THEN /\ last' = res
                        /\ done' = done + 1
                        /\ UNCHANGED <<fs, extracted, written, err_seen>>
                   ELSE \E save \in {"ok", "raise", "partial"} :
                     \* data.image.save(path): succeeds, raises before the
                     \* file exists, or raises leaving a partial file
                     IF save = "ok"
                     THEN /\ fs' = fs \cup {out}
                          /\ extracted' = TRUE
                          /\ written' = written \cup
                                          {[base |-> safe_name, cnt |-> cnt]}
                          /\ last' = [res EXCEPT !.saved = TRUE]
                          /\ done' = done + 1
                          /\ UNCHANGED err_seen
                     ELSE /\ fs' = IF save = "partial" THEN fs \cup {out} ELSE fs
                          /\ last' = [res EXCEPT !.err = TRUE]
                          /\ err_seen' = TRUE
                          /\ done' = after_object_error(done, n_objects)
                          /\ UNCHANGED <<extracted, written>>
    /\ UNCHANGED <<pc, driver_vars, dirs, attempt, flaky, asset_output_dir,
                   n_objects, body, caught, dir0, outcome, assigned, aux_vars>>

\* loop_result with "return True" in place of "return extracted"
loop_result_true(e) == TRUE

\* the value returned after the loop
loop_result(e) == e

\* return extracted
LoopEnd ==
    /\ pc = "loop"
    /\ done >= n_objects
    /\ body' = Return(loop_result(extracted))
    /\ pc' = "ret"
    /\ UNCHANGED <<driver_vars, fs, dirs, attempt, flaky, asset_output_dir,
                   n_objects, done, extracted, caught, dir0, written, nres,
                   visited, err_seen, last, outcome, assigned, aux_vars>>

\* tally with the else branch's failed_files += 1 left out
tally_no_failed(s, f, w) ==
    IF w.kind = "return" /\ w.value THEN <<s + 1, f>> ELSE <<s, f>>

\* the driver's counting of one file, given how the wrapper ended:
\* a true return counts as successful; a false (or None) return, and an
\* exception (except Exception: failed_files += 1), count as failed
tally(s, f, w) ==
    IF w.kind = "return" /\ w.value THEN <<s + 1, f>> ELSE <<s, f + 1>>

\* after_file with the rest of the batch given up when a file fails
stop_on_failure(idx, w) ==
    IF w.kind = "return" /\ w.value THEN idx + 1 ELSE BATCH_SIZE + 1

\* enumerate(batch, 1): whatever became of the file, the loop goes on with
\* the next one
after_file(idx, w) == idx + 1

\* process_ab_file's body ends (finally: gc.collect()), the wrapper looks at
\* what it did, and the driver counts the file and goes to the next one.
FileReturn ==
    /\ pc = "ret"
    /\ LET w == wrapper_step(attempt, body) IN
         IF w.kind = "retry" /\ attempt + 1 < max_attempts
         THEN \* warning, time.sleep(delay), next attempt
              /\ attempt' = attempt + 1
              /\ pc' = "call"
              /\ UNCHANGED <<driver_vars, outcome>>
         ELSE \* the wrapper returns or raises (an exhausted loop returns
              \* None, which is falsy)
              /\ successful_files' = tally(successful_files, failed_files, w)[1]
              /\ failed_files' = tally(successful_files, failed_files, w)[2]
              /\ outcome' = [n |-> outcome.n + 1, flaky |-> flaky,
                              caught |-> caught,
                              ds |-> successful_files' - successful_files,
                              df |-> failed_files' - failed_files]
              /\ index' = after_file(index, w)
              /\ attempt' = 0
              /\ pc' = "file"
              /\ UNCHANGED <<root_exists, tree, max_objs, ab_files,
                             total_files, i, exit_code, raised, summary>>
    /\ RunReset
    /\ UNCHANGED <<fs, dirs, flaky, assigned, aux_vars>>

Next ==
    \/ RootMissing
    \/ Discover
    \/ BeginBatch
    \/ StartFile
    \/ EndBatch
    \/ Summary
    \/ Interrupt
    \/ Validate
    \/ MakeDir
    \/ Load
    \/ ProcessObject
    \/ LoopEnd
    \/ FileReturn

Spec == Init /\ [][Next]_vars

FileSpec == InitFile /\ [][Next]_vars

\* ------------------------------------------------ retry_on_error on its own
\* what a wrapped function can do on one call: raise an Exception, or
\* return a value
FuncOutcomes ==
    {Raise} \cup {[kind |-> "return", value |-> v] : v \in {"True", "False", "None"}}

\* wrapper(*args) for a function whose behaviour on its successive calls is
\* script
InitRetry ==
    /\ pc = "wcall"
    /\ script \in [1..max_attempts -> FuncOutcomes]
    /\ invocations = 0
    /\ delays = 0
    /\ wres = NoBody
    /\ chk = NoChk
    /\ root_exists = TRUE
    /\ tree = {}
    /\ max_objs = 0
    /\ fs = {}
    /\ DriverIdle
    /\ RunIdle

\* try: return func(*args, **kwargs) / except Exception: re-raise on the
\* last attempt, else log the warning
RetryCall ==
    /\ pc = "wcall"
    /\ invocations' = invocations + 1
    /\ LET w == wrapper_step(attempt, script[invocations']) IN
         IF w.kind = "retry"
         THEN /\ pc' = "wsleep"
              /\ wres' = wres
         ELSE /\ pc' = "wdone"
              /\ wres' = w
    /\ UNCHANGED <<driver_vars, fs, dirs, attempt, flaky, run_vars, outcome,
                   assigned, script, delays, chk>>

\* time.sleep(delay), then the next pass of for attempt in
\* range(max_attempts); after the last pass: return None
RetrySleep ==
    /\ pc = "wsleep"
    /\ delays' = delays + 1
    /\ attempt' = attempt + 1
    /\ IF attempt' < max_attempts
       THEN /\ pc' = "wcall"
            /\ wres' = wres
       ELSE /\ pc' = "wdone"
            /\ wres' = [kind |-> "return", value |-> "None"]
    /\ UNCHANGED <<driver_vars, fs, dirs, flaky, run_vars, outcome, assigned,
                   script, invocations, chk>>

NextRetry == RetryCall \/ RetrySleep

RetrySpec == InitRetry /\ [][NextRetry]_vars

\* ------------------------------------------- check_file_validity on its own
InitCheck ==
    /\ pc = "check"
    /\ chk \in [input : FileStates, result : {NoBody}, warned : {FALSE}]
    /\ script = <<>>
    /\ invocations = 0
    /\ delays = 0
    /\ wres = NoBody
    /\ root_exists = TRUE
    /\ tree = {}
    /\ max_objs = 0
    /\ fs = {}
    /\ DriverIdle
    /\ RunIdle

\* check_file_validity(file_path) on the file chk.input
Check ==
    /\ pc = "check"
    /\ chk' = [input |-> chk.input,
               result |-> check_file_validity(chk.input),
               warned |-> check_warns(chk.input)]
    /\ pc' = "checked"
    /\ UNCHANGED <<driver_vars, fs, dirs, attempt, flaky, run_vars, outcome,
                   assigned, script, invocations, delays, wres>>

NextCheck == Check

ValidatorSpec == InitCheck /\ [][NextCheck]_vars


\* ------------------------------------------------------------------ claims

\* C1: a file whose pipeline raises on its first two attempts (here: the
\* decoder's load raises on the first max_attempts - 1 calls and would
\* succeed on the next) is counted as successful exactly once and never as
\* failed.
C1_RetriedFileCountedSuccessful ==
    (outcome.n > 0 /\ outcome.caught /\ outcome.flaky = max_attempts - 1)
        => (outcome.ds = 1 /\ outcome.df = 0)

\* C2: every file that completes adds exactly 1 to exactly one of
\* successful_files and failed_files: after k completed files the two sum to
\* k, the files completed are those before the driver's position, and at the
\* final statistics they sum to total_files.
C2_TallyCountsEachFileOnce ==
    /\ successful_files + failed_files = outcome.n
    /\ outcome.n > 0 => /\ outcome.ds \in {0, 1}
                        /\ outcome.df \in {0, 1}
                        /\ outcome.ds + outcome.df = 1
    /\ pc = "file" => outcome.n = i + index - 1
    /\ summary => successful_files + failed_files = total_files

\* a run over two bundles, one counted failed and one successful, has logged
\* its final statistics
C2_Witness ==
    /\ summary
    /\ total_files = 2
    /\ successful_files = 1
    /\ failed_files = 1

\* C3 as claimed: when the output directory held no file of the name's
\* family (base.png, base_1.png, ...) as the call started, the path resolved
\* for the (k+1)-th object of that (non-empty) sanitized name is base.png
\* for k = 0 and base_k.png otherwise.
C3_SuccessiveResolutionsNumbered ==
    (last.kind = "resolved" /\ last.free0 /\ last.name # <<>>)
        => last.cnt = last.k

\* C3 amended: the same, provided each of the k earlier resolutions for the
\* name was followed by a successful save, and whichever of base.png,
\* base_1.png, ..., base_k.png is in the directory was written by those saves
\* (not left from before the call, not written for an object of another
\* name, not left by a failed save).
C3_SavedResolutionsNumbered ==
    (last.kind = "resolved" /\ last.clean) => last.cnt = last.k

\* the third object of one name in a call is resolved, after two saves, to
\* the suffix _2 and saved
C3_Witness ==
    /\ last.kind = "resolved"
    /\ last.clean
    /\ last.k = 2
    /\ last.cnt = 2
    /\ last.saved

\* C4: when process_ab_file's body returns, it returns True if and only if
\* the save of at least one image succeeded during the call.
C4_ReturnsTrueIffSaved ==
    pc = "ret" => /\ body.kind = "return"
                  /\ body.value <=> (written # {})

\* the call returns True although one of the bundle's objects raised
C4_Witness ==
    /\ pc = "ret"
    /\ body.value
    /\ written # {}
    /\ err_seen

\* C5: the name get_asset_name returns is never empty, so no output file is
\* named ".png".
C5_NameNeverEmpty ==
    /\ last.kind = "resolved" => last.name # <<>>
    /\ \A e \in fs : e.name # Png

\* C6: check_file_validity never raises; it returns False for a missing
\* file, a zero-length file, a file of 1 to 3 bytes and when stat, open or
\* read fails, and True for every readable file of 4 or more bytes; the
\* warning is logged exactly for the accepted files whose header is neither
\* b'Unit' nor four zero bytes.
C6_ValidityResult ==
    pc = "checked" =>
      /\ chk.result.kind = "return"
      /\ chk.result.value <=> /\ chk.input.exists
                              /\ chk.input.fails = "none"
                              /\ Len(chk.input.content) >= 4
      /\ chk.warned <=> /\ chk.result.value
                        /\ SubSeq(chk.input.content, 1, 4) \notin
                             {UnitHeader, ZeroHeader}

\* a readable file of 4 or more bytes with an unknown header is accepted,
\* with the warning
C6_Witness ==
    /\ pc = "checked"
    /\ chk.result.value
    /\ chk.warned
    /\ Len(chk.input.content) >= 4

\* C7: an exception raised for one object does not end the loop: the
\* objects iterated are as many as the loop's position says, all of
\* env.objects once the body returns, and an image-typed object that exposes
\* an image and does not itself raise is saved whatever happened to the
\* objects before it.
C7_ObjectErrorsSkipOnlyTheirObject ==
    /\ pc = "loop" => visited = done
    /\ pc = "ret" => visited = n_objects
    /\ (last.kind = "resolved" /\ last.has_image /\ ~last.err)
          => /\ last.saved
             /\ [dir |-> asset_output_dir,
                 name |-> file_name(last.name, last.cnt)] \in fs

\* an object is saved after an earlier object of the same bundle raised
C7_Witness ==
    /\ err_seen
    /\ last.kind = "resolved"
    /\ last.saved
    /\ ~last.err

\* the directory that mirrors the file's place under the input root
mirror_dir(file_path) ==
    output_base \o parent(relative_to(file_path, root_path))
                \o <<Dir(stem(file_path))>>

\* C8: each bundle's output directory is output_base / (its directory
\* relative to the input root) / (its stem), so no two distinct bundles get
\* the same output directory.
C8_OutputMirrorsLayout ==
    /\ \A a \in assigned : a.dir = mirror_dir(a.file)
    /\ \A a, b \in assigned : a.file # b.file => a.dir # b.dir

RECURSIVE leading_raises(_, _)
leading_raises(sc, k) ==
    IF k <= Len(sc) /\ sc[k].kind = "raise" THEN 1 + leading_raises(sc, k + 1)
    ELSE 0

\* C10: the wrapped function is called at most max_attempts times; when it
\* raises on its first k < max_attempts calls and then returns, the wrapper
\* returns that value after k+1 calls and k sleeps; when it raises on all
\* max_attempts calls the wrapper raises after max_attempts calls and
\* max_attempts - 1 sleeps, and returns nothing.
C10_RetryCounts ==
    /\ invocations <= max_attempts
    /\ pc = "wdone" =>
         LET k == leading_raises(script, 1) IN
           IF k < max_attempts
           THEN /\ wres.kind = "return"
                /\ wres.value = script[k + 1].value
                /\ invocations = k + 1
                /\ delays = k
           ELSE /\ wres.kind = "raise"
                /\ invocations = max_attempts
                /\ delays = max_attempts - 1

\* the function raised on every call and the wrapper re-raised
C10_Witness ==
    /\ pc = "wdone"
    /\ leading_raises(script, 1) = max_attempts
    /\ wres.kind = "raise"
    /\ invocations = max_attempts

====
